---- MODULE Spec2Model ----
(***************************************************************************)
(* A model of repl_idea.py: a command tree (groups and commands), the      *)
(* resolver execute_command, the help renderer show_help, the readline     *)
(* completer, the interactive loop run_repl and the one-shot driver main.  *)
(*                                                                         *)
(* Python strings are TLA+ strings, handled character by character with    *)
(* Len, SubSeq and \o.  A Python dict is a sequence of <<key, value>>      *)
(* pairs with distinct keys, kept in insertion order as dicts are.         *)
(***************************************************************************)
EXTENDS Integers, Sequences, FiniteSets, TLC

VARIABLES commands, pc, call, stdout, dispatched, help_calls, exec_calls, ret

vars == <<commands, pc, call, stdout, dispatched, help_calls, exec_calls, ret>>

(***************************************************************************)
(* Bounds of the model.                                                    *)
(***************************************************************************)
MaxTokens == 3
MaxTail == 3
MaxPieces == 3
MaxState == 3

(***************************************************************************)
(* Python values: None, True and str objects.                              *)
(***************************************************************************)
None == <<"NoneType", "None">>
PyTrue == <<"bool", "True">>
PyStr(s) == <<"str", s>>
PyInt(s) == <<"int", s>>
PyFunction(name) == <<"function", name>>
Str(v) == v[2]

(***************************************************************************)
(* str methods.                                                            *)
(***************************************************************************)
Char(s, i) == SubSeq(s, i, i)

StartsWith(s, p) == Len(p) <= Len(s) /\ SubSeq(s, 1, Len(p)) = p

EndsWith(s, p) == Len(p) <= Len(s) /\ SubSeq(s, Len(s) - Len(p) + 1, Len(s)) = p

RECURSIVE LStrip(_, _)
LStrip(s, c) ==
    IF Len(s) > 0 /\ Char(s, 1) = c THEN LStrip(SubSeq(s, 2, Len(s)), c) ELSE s

RECURSIVE Find(_, _, _)
Find(s, c, i) ==
    IF i > Len(s) THEN 0
    ELSE IF Char(s, i) = c THEN i
    ELSE Find(s, c, i + 1)

SplitOnce(s, sep) ==
    LET k == Find(s, sep, 1)
    IN  IF k = 0 THEN <<s>>
        ELSE <<SubSeq(s, 1, k - 1), SubSeq(s, k + 1, Len(s))>>

RECURSIVE Replace(_, _, _)
Replace(s, old, new) ==
    IF Len(s) = 0 THEN s
    ELSE (IF Char(s, 1) = old THEN new ELSE Char(s, 1))
             \o Replace(SubSeq(s, 2, Len(s)), old, new)

RECURSIVE Join(_, _)
Join(seq, sep) ==
    IF Len(seq) = 0 THEN ""
    ELSE IF Len(seq) = 1 THEN seq[1]
    ELSE seq[1] \o sep \o Join(Tail(seq), sep)

Whitespace == {" ", "\t"}

RECURSIVE SplitFrom(_, _, _, _)
SplitFrom(s, i, word, acc) ==
    IF i > Len(s) THEN (IF word = "" THEN acc ELSE Append(acc, word))
    ELSE IF Char(s, i) \in Whitespace
         THEN SplitFrom(s, i + 1, "", IF word = "" THEN acc ELSE Append(acc, word))
         ELSE SplitFrom(s, i + 1, word \o Char(s, i), acc)

Split(s) == SplitFrom(s, 1, "", <<>>)

(***************************************************************************)
(* dict operations.                                                        *)
(***************************************************************************)
EmptyDict == <<>>

Keys(d) == [i \in 1..Len(d) |-> d[i][1]]

Has(d, k) == \E i \in 1..Len(d) : d[i][1] = k

Get(d, k) == d[CHOOSE i \in 1..Len(d) : d[i][1] = k][2]

Set(d, k, v) ==
    IF Has(d, k)
    THEN [i \in 1..Len(d) |-> IF d[i][1] = k THEN <<k, v>> ELSE d[i]]
    ELSE Append(d, <<k, v>>)

(***************************************************************************)
(* The example functions of the commands.  Parameters gives the keyword    *)
(* parameters a function declares; Body gives the line it prints.          *)
(***************************************************************************)
Parameters(function) ==
    IF function = PyFunction("start_job_function") THEN {"nice", "max_mem"} ELSE {}

Argument(kwargs, name, default) ==
    IF Has(kwargs, name) THEN Get(kwargs, name) ELSE default

Body(function, kwargs) ==
    CASE function = PyFunction("list_jobs_function") -> "Listing jobs..."
      [] function = PyFunction("start_job_function") ->
             "Starting job with nice=" \o Str(Argument(kwargs, "nice", PyInt("0")))
                 \o " and max_mem=" \o Str(Argument(kwargs, "max_mem", PyStr("64k")))
      [] function = PyFunction("stop_job_function") -> "Stopping job..."
      [] function = PyFunction("add_user_function") -> "Adding user..."
      [] function = PyFunction("remove_user_function") -> "Removing user..."
      [] function = PyFunction("list_users_function") -> "Listing users..."

(***************************************************************************)
(* Calling a function with keyword arguments: a keyword the function does *)
(* not declare raises                                                      *)
(* TypeError, naming the first such keyword; otherwise the body runs.      *)
(***************************************************************************)
Invoke(function, kwargs) ==
    LET unexpected == {i \in 1..Len(kwargs) : kwargs[i][1] \notin Parameters(function)}
    IN  IF unexpected = {}
        THEN [raised |-> FALSE, text |-> Body(function, kwargs)]
        ELSE LET first == CHOOSE i \in unexpected : \A j \in unexpected : i <= j
             IN  [raised |-> TRUE,
                  text |-> Str(function) \o "() got an unexpected keyword argument '"
                               \o kwargs[first][1] \o "'"]

(***************************************************************************)
(* The command hierarchy.                                                  *)
(***************************************************************************)
Registry ==
    << <<"jobs",
         [_type |-> "group",
          children |->
            << <<"list", [_type |-> "command", function |-> PyFunction("list_jobs_function")]>>,
               <<"start", [_type |-> "command", function |-> PyFunction("start_job_function"),
                           options |-> <<"nice", "max-mem">>]>>,
               <<"stop", [_type |-> "command", function |-> PyFunction("stop_job_function")]>> >>]>>,
       <<"users",
         [_type |-> "group",
          children |->
            << <<"add", [_type |-> "command", function |-> PyFunction("add_user_function")]>>,
               <<"remove", [_type |-> "command", function |-> PyFunction("remove_user_function")]>>,
               <<"list", [_type |-> "command", function |-> PyFunction("list_users_function")]>> >>]>> >>

\* node.get('children', {})
Children(node) == IF "children" \in DOMAIN node THEN node.children ELSE EmptyDict

(***************************************************************************)
(* What a call does that can be seen from outside: the lines it prints,    *)
(* the functions it invokes (with the options accumulated and the keyword  *)
(* arguments made of them), and the calls of show_help and execute_command *)
(* it makes, with their arguments.                                         *)
(***************************************************************************)
NoEffect == [stdout |-> <<>>, dispatched |-> <<>>, help_calls |-> <<>>, exec_calls |-> <<>>]

Printed(lines) == [NoEffect EXCEPT !.stdout = lines]

Then(e, f) ==
    [stdout |-> e.stdout \o f.stdout,
     dispatched |-> e.dispatched \o f.dispatched,
     help_calls |-> e.help_calls \o f.help_calls,
     exec_calls |-> e.exec_calls \o f.exec_calls]

(***************************************************************************)
(* show_help.                                                              *)
(***************************************************************************)
\* a mutant of HelpForCommand: the declared options are never listed
HelpForCommandNoOptions(node, tokens) ==
    <<"Help for command '" \o Join(tokens, " ") \o "':", "No options available.">>

HelpForCommand(node, tokens) ==
    <<"Help for command '" \o Join(tokens, " ") \o "':">>
        \o (IF "options" \in DOMAIN node
            THEN <<"Options:">>
                     \o [k \in 1..Len(node.options) |-> "  --" \o node.options[k]]
            ELSE <<"No options available.">>)

HelpForGroup(current_node, tokens) ==
    <<IF Len(tokens) > 0
      THEN "Available commands under '" \o Join(tokens, " ") \o "':"
      ELSE "Available commands:">>
        \o [k \in 1..Len(current_node) |-> "  " \o current_node[k][1]]

\* a mutant of HelpLoop: the walk goes on after a command, where nothing is known
RECURSIVE HelpLoopPastCommand(_, _, _, _)
HelpLoopPastCommand(root, tokens, k, current_node) ==
    IF k > Len(tokens) THEN HelpForGroup(current_node, tokens)
    ELSE IF Has(current_node, tokens[k])
    THEN LET node == Get(current_node, tokens[k])
         IN  IF node._type = "group"
             THEN HelpLoopPastCommand(root, tokens, k + 1, Children(node))
             ELSE IF k = Len(tokens)
             THEN HelpForCommand(node, tokens)
             ELSE <<"Unknown command '" \o Join(tokens, " ") \o "'.">>
    ELSE <<"Unknown command '" \o Join(tokens, " ") \o "'.">>

RECURSIVE HelpLoop(_, _, _, _)
HelpLoop(root, tokens, k, current_node) ==
    IF k > Len(tokens) THEN HelpForGroup(current_node, tokens)
    ELSE IF Has(current_node, tokens[k])
    THEN LET node == Get(current_node, tokens[k])
         IN  IF node._type = "group"
             THEN HelpLoop(root, tokens, k + 1, Children(node))
             ELSE IF node._type = "command"
             THEN HelpForCommand(node, tokens)
             ELSE HelpLoop(root, tokens, k + 1, current_node)
    ELSE <<"Unknown command '" \o Join(tokens, " ") \o "'.">>

show_help(root, tokens) ==
    [NoEffect EXCEPT !.stdout = HelpLoop(root, tokens, 1, root),
                     !.help_calls = <<tokens>>]

(***************************************************************************)
(* execute_command.                                                        *)
(***************************************************************************)
IsHelp(token) == token = "--help"

IsOption(token) == StartsWith(token, "--")

\* token.lstrip('-').split('=', 1)
KeyValue(token) == SplitOnce(LStrip(token, "-"), "=")

\* a mutant of TakesNext: an option never takes the next token as its value
TakesNextNever(tokens, i) == FALSE

\* a mutant of TakesNext: an option takes the next token whatever it is
TakesNextAny(tokens, i) == i + 1 <= Len(tokens)

\* i + 1 < len(tokens) and not tokens[i + 1].startswith('--'), i counted from 1
TakesNext(tokens, i) == i + 1 <= Len(tokens) /\ ~StartsWith(tokens[i + 1], "--")

\* {k.replace('-', '_'): v for k, v in options.items()}
RECURSIVE FilteredFrom(_, _, _)
FilteredFrom(options, k, acc) ==
    IF k > Len(options) THEN acc
    ELSE FilteredFrom(options, k + 1,
                      Set(acc, Replace(options[k][1], "-", "_"), options[k][2]))

FilteredOptions(options) == FilteredFrom(options, 1, EmptyDict)

\* a mutant of Dispatch: only the keywords the function declares are passed
DispatchDeclaredOnly(command_function, options) ==
    IF command_function # None
    THEN LET declared(kv) == kv[1] \in Parameters(command_function)
             filtered_options == SelectSeq(FilteredOptions(options), declared)
             r == Invoke(command_function, filtered_options)
         IN  [NoEffect EXCEPT
                !.dispatched = <<[function |-> command_function,
                                  options |-> options,
                                  kwargs |-> filtered_options]>>,
                !.stdout = <<IF r.raised
                             THEN "Error executing command: " \o r.text
                             ELSE r.text>>]
    ELSE Printed(<<"No executable command provided.">>)

\* a mutant of Dispatch: command_function is called without the test that it is set
DispatchUnchecked(command_function, options) ==
    LET filtered_options == FilteredOptions(options)
    IN  [NoEffect EXCEPT
           !.dispatched = <<[function |-> command_function, options |-> options,
                             kwargs |-> filtered_options]>>,
           !.stdout = <<IF command_function = None
                        THEN "Error executing command: 'NoneType' object is not callable"
                        ELSE Invoke(command_function, filtered_options).text>>]

Dispatch(command_function, options) ==
    IF command_function # None
    THEN LET filtered_options == FilteredOptions(options)
             r == Invoke(command_function, filtered_options)
         IN  [NoEffect EXCEPT
                !.dispatched = <<[function |-> command_function,
                                  options |-> options,
                                  kwargs |-> filtered_options]>>,
                !.stdout = <<IF r.raised
                             THEN "Error executing command: " \o r.text
                             ELSE r.text>>]
    ELSE Printed(<<"No executable command provided.">>)

\* a mutant of EnterNode: a command is entered without taking its function
EnterNodeForgetsFunction(node, current_node, command_function) ==
    IF node._type = "group"
    THEN [known |-> TRUE, current_node |-> Children(node),
          command_function |-> command_function]
    ELSE [known |-> TRUE, current_node |-> EmptyDict,
          command_function |-> command_function]

\* a mutant of EnterNode: a command is entered without leaving its group
EnterNodeStaysInGroup(node, current_node, command_function) ==
    IF node._type = "group"
    THEN [known |-> TRUE, current_node |-> Children(node),
          command_function |-> command_function]
    ELSE [known |-> TRUE, current_node |-> current_node,
          command_function |-> node.function]

\* what finding token among the children of the current node does to the walk
EnterNode(node, current_node, command_function) ==
    IF node._type = "group"
    THEN [known |-> TRUE, current_node |-> Children(node),
          command_function |-> command_function]
    ELSE IF node._type = "command"
    THEN [known |-> TRUE, current_node |-> EmptyDict,
          command_function |-> node.function]
    ELSE [known |-> FALSE, current_node |-> current_node,
          command_function |-> command_function]

\* a mutant of UnknownCommand: the message does not name the token
UnknownCommandUnnamed(token) == Printed(<<"Unknown command or option.">>)

UnknownCommand(token) == Printed(<<"Unknown command or option '" \o token \o "'.">>)

RECURSIVE ExecLoop(_, _, _, _, _, _)
ExecLoop(root, tokens, i, current_node, options, command_function) ==
    IF i > Len(tokens) THEN Dispatch(command_function, options)
    ELSE LET token == tokens[i]
         IN  IF IsHelp(token) THEN show_help(root, SubSeq(tokens, 1, i - 1))
             ELSE IF IsOption(token)
             THEN LET key_value == KeyValue(token)
                  IN  IF Len(key_value) = 2
                      THEN ExecLoop(root, tokens, i + 1, current_node,
                                    Set(options, key_value[1], PyStr(key_value[2])),
                                    command_function)
                      ELSE IF TakesNext(tokens, i)
                      THEN ExecLoop(root, tokens, i + 2, current_node,
                                    Set(options, key_value[1], PyStr(tokens[i + 1])),
                                    command_function)
                      ELSE ExecLoop(root, tokens, i + 1, current_node,
                                    Set(options, key_value[1], PyTrue),
                                    command_function)
             ELSE IF Has(current_node, token)
             THEN LET entered == EnterNode(Get(current_node, token), current_node,
                                            command_function)
                  IN  IF entered.known
                      THEN ExecLoop(root, tokens, i + 1, entered.current_node, options,
                                    entered.command_function)
                      ELSE Printed(<<"Unknown node type for '" \o token \o "'.">>)
             ELSE UnknownCommand(token)

execute_command(root, tokens) ==
    Then([NoEffect EXCEPT !.exec_calls = <<tokens>>],
         ExecLoop(root, tokens, 1, root, EmptyDict, None))

(***************************************************************************)
(* completer.  Strings are ordered as Python orders them, by code point;   *)
(* CodePoints lists the characters of the model in that order.             *)
(***************************************************************************)
CodePoints == "\t '-0123456789=_abcdefghijklmnopqrstuvwxyz"

Ord(c) == Find(CodePoints, c, 1)

RECURSIVE Less(_, _)
Less(a, b) ==
    IF Len(b) = 0 THEN FALSE
    ELSE IF Len(a) = 0 THEN TRUE
    ELSE IF Char(a, 1) = Char(b, 1)
         THEN Less(SubSeq(a, 2, Len(a)), SubSeq(b, 2, Len(b)))
         ELSE Ord(Char(a, 1)) < Ord(Char(b, 1))

RECURSIVE Insert(_, _)
Insert(sorted, x) ==
    IF Len(sorted) = 0 THEN <<x>>
    ELSE IF Less(x, Head(sorted)) THEN <<x>> \o sorted
    ELSE <<Head(sorted)>> \o Insert(Tail(sorted), x)

RECURSIVE Sort(_)
Sort(seq) == IF Len(seq) = 0 THEN <<>> ELSE Insert(Sort(Tail(seq)), Head(seq))

\* line.endswith(' ')
AtFreshToken(line) == EndsWith(line, " ")

\* tokens = line.strip().split(), with '' appended when the line ends with a space
LineTokens(line) ==
    IF AtFreshToken(line) THEN Append(Split(line), "") ELSE Split(line)

\* a mutant of CompleterWalk: option tokens are skipped, as execute_command skips them
RECURSIVE CompleterWalkSkippingOptions(_, _, _)
CompleterWalkSkippingOptions(tokens, k, current_node) ==
    IF k > Len(tokens) - 1 THEN current_node
    ELSE IF StartsWith(tokens[k], "--")
    THEN CompleterWalkSkippingOptions(tokens, k + 1, current_node)
    ELSE IF Has(current_node, tokens[k])
    THEN LET node == Get(current_node, tokens[k])
         IN  IF node._type = "group"
             THEN CompleterWalkSkippingOptions(tokens, k + 1, Children(node))
             ELSE EmptyDict
    ELSE EmptyDict

\* the walk over tokens[:-1]
RECURSIVE CompleterWalk(_, _, _)
CompleterWalk(tokens, k, current_node) ==
    IF k > Len(tokens) - 1 THEN current_node
    ELSE IF Has(current_node, tokens[k])
    THEN LET node == Get(current_node, tokens[k])
         IN  IF node._type = "group"
             THEN CompleterWalk(tokens, k + 1, Children(node))
             ELSE IF node._type = "command"
             THEN EmptyDict
             ELSE CompleterWalk(tokens, k + 1, current_node)
    ELSE EmptyDict

\* a mutant of Matches: every child is offered, whatever the token typed so far
MatchesUnfiltered(current_node, current_token) == Keys(current_node)

Matches(current_node, current_token) ==
    SelectSeq(Keys(current_node), LAMBDA cmd : StartsWith(cmd, current_token))

CompleterOptions(root, line) ==
    LET tokens == LineTokens(line)
        current_node == CompleterWalk(tokens, 1, root)
        current_token == IF Len(tokens) > 0 THEN tokens[Len(tokens)] ELSE ""
    IN  Sort(IF Len(current_node) > 0 THEN Matches(current_node, current_token) ELSE <<>>)

\* a mutant of completer: state is taken to count from 1
completerFromOne(root, line, state) ==
    LET options == CompleterOptions(root, line)
    IN  IF 1 <= state /\ state <= Len(options) THEN PyStr(options[state]) ELSE None

completer(root, line, state) ==
    LET options == CompleterOptions(root, line)
    IN  IF state < Len(options) THEN PyStr(options[state + 1]) ELSE None

(***************************************************************************)
(* main with arguments (argv is sys.argv[1:]), and one line of run_repl.   *)
(***************************************************************************)
Contains(seq, x) == \E k \in 1..Len(seq) : seq[k] = x

\* tokens[:-1]
HelpTokens(tokens) == SubSeq(tokens, 1, Len(tokens) - 1)

main(root, argv) ==
    IF Contains(argv, "--help") \/ Contains(argv, "-h")
    THEN show_help(root, HelpTokens(argv))
    ELSE execute_command(root, argv)

RECURSIVE Strip(_)
Strip(s) ==
    IF Len(s) > 0 /\ Char(s, 1) \in Whitespace THEN Strip(SubSeq(s, 2, Len(s)))
    ELSE IF Len(s) > 0 /\ Char(s, Len(s)) \in Whitespace THEN Strip(SubSeq(s, 1, Len(s) - 1))
    ELSE s

(***************************************************************************)
(* The inputs of the model: token sequences, line buffers, input lines.    *)
(***************************************************************************)
RECURSIVE SeqsUpTo(_, _)
SeqsUpTo(S, n) ==
    IF n = 0 THEN {<<>>}
    ELSE LET shorter == SeqsUpTo(S, n - 1)
         IN  shorter \cup {Append(t, x) : t \in {u \in shorter : Len(u) = n - 1}, x \in S}

TokenAlphabet ==
    {"jobs", "users", "list", "start", "bogus",
     "--help", "--nice=5", "--max-mem", "128k", "---nice=7"}

FullPaths ==
    {<<"jobs", "list">>, <<"jobs", "start">>, <<"jobs", "stop">>,
     <<"users", "add">>, <<"users", "remove">>, <<"users", "list">>}

TailAlphabet ==
    {"--nice=5", "--max-mem", "128k", "--max_mem=1", "--max-mem=2", "--max_mem=3",
     "--help", "---nice=7", "--=v", "--a=b=c", "list"}

TokenSeqs ==
    SeqsUpTo(TokenAlphabet, MaxTokens)
        \cup FullPaths
        \cup {<<"jobs", "start">> \o t : t \in SeqsUpTo(TailAlphabet, MaxTail)}

HelpAlphabet == {"jobs", "users", "list", "start", "add", "bogus", "--nice=5"}

MainAlphabet == {"jobs", "list", "start", "bogus", "--help", "-h", "--nice=5"}

LinePieces == {"jobs", "users", "list", "st", "l", "--x", " ", "\t"}

RECURSIVE Concat(_)
Concat(pieces) == IF Len(pieces) = 0 THEN "" ELSE Head(pieces) \o Concat(Tail(pieces))

LineBuffers ==
    {Concat(p) : p \in SeqsUpTo(LinePieces, MaxPieces)}
        \cup {"jobs list ", "jobs list l", "users add st", "jobs --x st", "jobs st l"}

ReplAlphabet == {"jobs", "list", "start", "bogus", "--help", "--nice=5", "--x"}

InputLines ==
    {Join(t, " ") : t \in SeqsUpTo(ReplAlphabet, MaxTokens)}
        \cup {"exit", " exit ", "exit now", "  ", "\tjobs  list "}

(***************************************************************************)
(* The state: the registry, where the program is (idle: the module is      *)
(* loaded; returned: a call has returned; prompt: run_repl waits in        *)
(* input(); looping: run_repl has handled a line), the last call and what  *)
(* it did.                                                                 *)
(***************************************************************************)
NoCall == [op |-> "none", tokens |-> <<>>, line |-> "", state |-> 0]

Init ==
    /\ commands = Registry
    /\ pc = "idle"
    /\ call = NoCall
    /\ stdout = <<>>
    /\ dispatched = <<>>
    /\ help_calls = <<>>
    /\ exec_calls = <<>>
    /\ ret = None

\* a mutant of Did: a call leaves the registry without its first group
DidDroppingGroup(c, e, r, next) ==
    /\ call' = c
    /\ stdout' = e.stdout
    /\ dispatched' = e.dispatched
    /\ help_calls' = e.help_calls
    /\ exec_calls' = e.exec_calls
    /\ ret' = r
    /\ pc' = next
    /\ commands' = IF c.op = "none" \/ Len(commands) = 0 THEN commands ELSE Tail(commands)

Did(c, e, r, next) ==
    /\ call' = c
    /\ stdout' = e.stdout
    /\ dispatched' = e.dispatched
    /\ help_calls' = e.help_calls
    /\ exec_calls' = e.exec_calls
    /\ ret' = r
    /\ pc' = next
    /\ UNCHANGED commands

CallExecuteCommand ==
    /\ pc = "idle"
    /\ \E tokens \in TokenSeqs :
          Did([NoCall EXCEPT !.op = "execute_command", !.tokens = tokens],
              execute_command(commands, tokens), None, "returned")

CallShowHelp ==
    /\ pc = "idle"
    /\ \E tokens \in SeqsUpTo(HelpAlphabet, MaxTokens) :
          Did([NoCall EXCEPT !.op = "show_help", !.tokens = tokens],
              show_help(commands, tokens), None, "returned")

CallCompleter ==
    /\ pc = "idle"
    /\ \E line \in LineBuffers, state \in 0..MaxState :
          Did([NoCall EXCEPT !.op = "completer", !.line = line, !.state = state],
              NoEffect, completer(commands, line, state), "returned")

\* main, len(sys.argv) > 1
MainOneShot ==
    /\ pc = "idle"
    /\ \E argv \in SeqsUpTo(MainAlphabet, MaxTokens) :
          /\ Len(argv) > 0
          /\ Did([NoCall EXCEPT !.op = "main", !.tokens = argv],
                 main(commands, argv), None, "returned")

\* main, no arguments: run_repl is entered
MainRepl ==
    /\ pc = "idle"
    /\ Did([NoCall EXCEPT !.op = "main"], NoEffect, None, "prompt")

\* a mutant of ReplLine: a line that ends in an error report ends the loop
ReplLineStopsOnError ==
    /\ pc = "prompt"
    /\ \E line \in InputLines :
          LET user_input == Strip(line)
              c == [NoCall EXCEPT !.op = "run_repl", !.line = line]
              e == execute_command(commands, Split(user_input))
          IN  IF user_input = "exit" THEN Did(c, NoEffect, None, "returned")
              ELSE IF user_input = "" THEN Did(c, NoEffect, None, "looping")
              ELSE Did(c, e, None,
                       IF e.dispatched = <<>> /\ e.help_calls = <<>>
                       THEN "returned" ELSE "looping")

\* one pass of the loop of run_repl on an input line
ReplLine ==
    /\ pc = "prompt"
    /\ \E line \in InputLines :
          LET user_input == Strip(line)
              c == [NoCall EXCEPT !.op = "run_repl", !.line = line]
          IN  IF user_input = "exit" THEN Did(c, NoEffect, None, "returned")
              ELSE IF user_input = "" THEN Did(c, NoEffect, None, "looping")
              ELSE Did(c, execute_command(commands, Split(user_input)), None, "looping")

\* input() raises EOFError
ReplEOF ==
    /\ pc = "prompt"
    /\ Did([NoCall EXCEPT !.op = "run_repl"], NoEffect, None, "returned")

\* back to the top of the loop
ReplNext ==
    /\ pc = "looping"
    /\ Did([NoCall EXCEPT !.op = "run_repl"], NoEffect, None, "prompt")

\* the caller goes on after a call has returned
Return ==
    /\ pc = "returned"
    /\ Did(NoCall, NoEffect, None, "idle")

Next ==
    \/ CallExecuteCommand
    \/ CallShowHelp
    \/ CallCompleter
    \/ MainOneShot
    \/ MainRepl
    \/ ReplLine
    \/ ReplEOF
    \/ ReplNext
    \/ Return

Spec == Init /\ [][Next]_vars

(***************************************************************************)
(* The loop of run_repl is sequential code: once a line has been           *)
(* processed, control does go back to the top of the loop.  What the user  *)
(* types, and when, is left to the user.                                   *)
(***************************************************************************)
FairSpec == Spec /\ WF_vars(ReplNext)

(***************************************************************************)
(* The vocabulary of the properties: what the documentation calls an       *)
(* option token, an option's value, a path token, the path consumed, a     *)
(* Group and a Command, defined on the token sequence and the registry.    *)
(***************************************************************************)
Executed == Len(exec_calls) = 1

Tokens == exec_calls[1]

TwoHyphens(t) == Len(t) >= 2 /\ SubSeq(t, 1, 2) = "--"

HasEquals(t) == \E k \in 1..Len(t) : SubSeq(t, k, k) = "="

OptionToken(ts, i) == TwoHyphens(ts[i]) /\ ts[i] # "--help"

ValueToken(ts, i) ==
    i > 1 /\ ~TwoHyphens(ts[i]) /\ OptionToken(ts, i - 1) /\ ~HasEquals(ts[i - 1])

PathToken(ts, i) == ~TwoHyphens(ts[i]) /\ ~ValueToken(ts, i)

\* the members of ts at the positions of idx, in order
Pick(ts, idx) ==
    [j \in 1..Cardinality(idx) |->
        ts[CHOOSE i \in idx : Cardinality({m \in idx : m < i}) = j - 1]]

\* the path tokens before position k
PathBefore(ts, k) == Pick(ts, {i \in 1..(k - 1) : i <= Len(ts) /\ PathToken(ts, i)})

NoHelpBefore(ts, k) == \A i \in 1..(k - 1) : i <= Len(ts) => ts[i] # "--help"

RootNode == [_type |-> "group", children |-> commands]

Nowhere == [_type |-> "nowhere"]

RECURSIVE NodeAt(_, _)
NodeAt(node, path) ==
    IF Len(path) = 0 THEN node
    ELSE IF node._type = "group" /\ Has(node.children, Head(path))
    THEN NodeAt(Get(node.children, Head(path)), Tail(path))
    ELSE Nowhere

IsGroupPath(path) == NodeAt(RootNode, path)._type = "group"

IsCommandPath(path) == NodeAt(RootNode, path)._type = "command"

\* execute_command comes to look at position k (k = Len(ts) + 1: at the end)
Meets(ts, k) ==
    /\ k \in 1..(Len(ts) + 1)
    /\ k <= Len(ts) => ~ValueToken(ts, k)
    /\ NoHelpBefore(ts, k)
    /\ IsGroupPath(PathBefore(ts, k)) \/ IsCommandPath(PathBefore(ts, k))

UnknownMessage(token) == "Unknown command or option '" \o token \o "'."

ErrorText(line) ==
    \/ StartsWith(line, "Error executing command")
    \/ StartsWith(line, "Unknown")
    \/ StartsWith(line, "No executable command")

ReportsError == \E n \in 1..Len(stdout) : ErrorText(stdout[n])

IsSubstring(w, s) == \E i \in 1..(Len(s) - Len(w) + 1) : SubSeq(s, i, i + Len(w) - 1) = w

Mentions(w) == \E n \in 1..Len(stdout) : IsSubstring(w, stdout[n])

(***************************************************************************)
(* C1: for a token sequence that is exactly a path from the root to a      *)
(* Command, with no option token, execute_command invokes that Command's   *)
(* function exactly once, with no keyword argument, and reports no error.  *)
(***************************************************************************)
C1_FullPathDispatchesOnce ==
    (/\ Executed
     /\ IsCommandPath(Tokens)
     /\ \A i \in 1..Len(Tokens) : ~TwoHyphens(Tokens[i]))
        => /\ Len(dispatched) = 1
           /\ dispatched[1].function = NodeAt(RootNode, Tokens).function
           /\ dispatched[1].kwargs = EmptyDict
           /\ ~ReportsError

C1_Witness ==
    /\ Executed
    /\ Tokens = <<"users", "add">>
    /\ Len(dispatched) = 1
    /\ dispatched[1].function = PyFunction("add_user_function")

(***************************************************************************)
(* C3.  A path token met at a Group that names none of its children.       *)
(***************************************************************************)
UnknownAt(ts, k) ==
    /\ k \in 1..Len(ts)
    /\ Meets(ts, k)
    /\ PathToken(ts, k)
    /\ IsGroupPath(PathBefore(ts, k))
    /\ ~Has(NodeAt(RootNode, PathBefore(ts, k)).children, ts[k])

(***************************************************************************)
(* C3 as amended: at such a token no function is invoked, nothing after    *)
(* the token is processed, and the one line printed names the offending    *)
(* token; it is the same line whatever path was consumed.                  *)
(***************************************************************************)
C3_UnknownTokenReported ==
    Executed =>
        \A k \in 1..Len(Tokens) :
            UnknownAt(Tokens, k) =>
                /\ stdout = <<UnknownMessage(Tokens[k])>>
                /\ dispatched = <<>>
                /\ help_calls = <<>>

(***************************************************************************)
(* C3 as stated: the failure is reported with the offending token and the  *)
(* path consumed so far.                                                   *)
(***************************************************************************)
C3_ReportCarriesPath ==
    Executed =>
        \A k \in 1..Len(Tokens) :
            UnknownAt(Tokens, k) =>
                /\ dispatched = <<>>
                /\ Mentions(Tokens[k])
                /\ \A j \in 1..Len(PathBefore(Tokens, k)) :
                       Mentions(PathBefore(Tokens, k)[j])

C3_Witness ==
    /\ Executed
    /\ Tokens = <<"jobs", "bogus", "--help">>
    /\ UnknownAt(Tokens, 2)
    /\ stdout = <<"Unknown command or option 'bogus'.">>

ExhaustedAtGroup(ts) ==
    /\ Meets(ts, Len(ts) + 1)
    /\ IsGroupPath(PathBefore(ts, Len(ts) + 1))

(***************************************************************************)
(* C4: when the tokens are used up and execute_command is still at a       *)
(* Group (the empty sequence and sequences of option tokens included), no  *)
(* function is invoked, the one line printed is "No executable command     *)
(* provided.", and execute_command returns.                                *)
(***************************************************************************)
C4_IncompletePathReported ==
    (Executed /\ ExhaustedAtGroup(Tokens))
        => /\ dispatched = <<>>
           /\ help_calls = <<>>
           /\ stdout = <<"No executable command provided.">>
           /\ pc \in {"returned", "looping"}

C4_Witness ==
    /\ Executed
    /\ Tokens = <<"--max-mem", "128k", "jobs">>
    /\ ExhaustedAtGroup(Tokens)
    /\ stdout = <<"No executable command provided.">>

(***************************************************************************)
(* C5.  A path token met after a Command has been reached.                 *)
(***************************************************************************)
ExtraAt(ts, k) ==
    /\ k \in 1..Len(ts)
    /\ Meets(ts, k)
    /\ PathToken(ts, k)
    /\ IsCommandPath(PathBefore(ts, k))

(***************************************************************************)
(* C5 as amended: once execute_command has reached a Command, a further    *)
(* bare token is reported as an unknown command or option and the          *)
(* Command's function is not invoked.                                      *)
(***************************************************************************)
C5_ExtraTokenRejected ==
    Executed =>
        \A k \in 1..Len(Tokens) :
            ExtraAt(Tokens, k) =>
                /\ stdout = <<UnknownMessage(Tokens[k])>>
                /\ dispatched = <<>>

(***************************************************************************)
(* C5 as stated: a further bare token is ignored, no error is reported and *)
(* the Command's function is invoked.                                      *)
(***************************************************************************)
C5_ExtraTokenIgnored ==
    Executed =>
        \A k \in 1..Len(Tokens) :
            (ExtraAt(Tokens, k) /\ NoHelpBefore(Tokens, Len(Tokens) + 1)) =>
                /\ ~ReportsError
                /\ Len(dispatched) = 1
                /\ dispatched[1].function
                       = NodeAt(RootNode, PathBefore(Tokens, k)).function

C5_Witness ==
    /\ Executed
    /\ Tokens = <<"jobs", "start", "--nice=5", "list">>
    /\ ExtraAt(Tokens, 4)
    /\ dispatched = <<>>

(***************************************************************************)
(* The key and the value an option token stands for, read off the token    *)
(* as the documentation describes it: the key is what follows the two      *)
(* hyphens, up to the first "=" if there is one.                           *)
(***************************************************************************)
AfterTwoHyphens(t) == SubSeq(t, 3, Len(t))

WrittenKey(t) == SplitOnce(AfterTwoHyphens(t), "=")[1]

WrittenValue(ts, i) ==
    IF HasEquals(ts[i]) THEN PyStr(SplitOnce(AfterTwoHyphens(ts[i]), "=")[2])
    ELSE IF i < Len(ts) /\ ~TwoHyphens(ts[i + 1]) THEN PyStr(ts[i + 1])
    ELSE PyTrue

Underscored(key) == Replace(key, "-", "_")

Dispatched == Executed /\ Len(dispatched) = 1

(***************************************************************************)
(* C2: every token that begins with two hyphens, --help apart, is an       *)
(* option in one of three forms (--key=value; --key value; --key alone,    *)
(* which records true), the value token of the second form is skipped, and *)
(* at dispatch the hyphens of a key become underscores; so jobs start      *)
(* --nice=5 --max-mem 128k dispatches the function of jobs start with      *)
(* nice "5" and max_mem "128k".  Stated of the options a dispatch holds.   *)
(***************************************************************************)
C2_OptionForms ==
    Dispatched =>
        LET ts == Tokens
            d == dispatched[1]
        IN  /\ \A i \in 1..Len(ts) :
                   OptionToken(ts, i) =>
                       /\ Has(d.options, WrittenKey(ts[i]))
                       /\ (\A j \in (i + 1)..Len(ts) :
                               OptionToken(ts, j) => WrittenKey(ts[j]) # WrittenKey(ts[i]))
                            => Get(d.options, WrittenKey(ts[i])) = WrittenValue(ts, i)
            /\ \A n \in 1..Len(d.options) :
                   /\ Has(d.kwargs, Underscored(d.options[n][1]))
                   /\ (\A m \in 1..Len(d.options) :
                           m # n => Underscored(d.options[m][1]) # Underscored(d.options[n][1]))
                        => Get(d.kwargs, Underscored(d.options[n][1])) = d.options[n][2]
            /\ \A n \in 1..Len(d.kwargs) :
                   \E m \in 1..Len(d.options) : d.kwargs[n][1] = Underscored(d.options[m][1])
            /\ IsCommandPath(PathBefore(ts, Len(ts) + 1))
            /\ d.function = NodeAt(RootNode, PathBefore(ts, Len(ts) + 1)).function
            /\ ts = <<"jobs", "start", "--nice=5", "--max-mem", "128k">>
                   => d.kwargs = << <<"nice", PyStr("5")>>, <<"max_mem", PyStr("128k")>> >>

(***************************************************************************)
(* C6: when execute_command meets the token --help, help is rendered for   *)
(* the path consumed so far: show_help is given the path tokens descended  *)
(* before the sentinel, without the option tokens and their values.        *)
(***************************************************************************)
C6_HelpForConsumedPath ==
    Executed =>
        \A k \in 1..Len(Tokens) :
            (Meets(Tokens, k) /\ Tokens[k] = "--help") =>
                /\ help_calls = <<PathBefore(Tokens, k)>>
                /\ dispatched = <<>>

IsSentinel(t) == t = "--help" \/ t = "-h"

(***************************************************************************)
(* C7: in main with arguments, if --help or -h occurs among the tokens,    *)
(* show_help is called with exactly the tokens before the first            *)
(* occurrence of the sentinel, and execute_command is not called.          *)
(***************************************************************************)
C7_HelpBeforeFirstSentinel ==
    (call.op = "main" /\ \E k \in 1..Len(call.tokens) : IsSentinel(call.tokens[k])) =>
        LET first == CHOOSE k \in 1..Len(call.tokens) :
                         /\ IsSentinel(call.tokens[k])
                         /\ \A j \in 1..(k - 1) : ~IsSentinel(call.tokens[j])
        IN  /\ help_calls = <<SubSeq(call.tokens, 1, first - 1)>>
            /\ exec_calls = <<>>

NormalKey(t) == Underscored(KeyValue(t)[1])

(***************************************************************************)
(* C9: in the keyword arguments handed to the function the keys are        *)
(* distinct, and each has the value given by the last option token with    *)
(* that key, keys being compared with hyphens made underscores.  The key   *)
(* of a token is taken here as execute_command extracts it.                *)
(***************************************************************************)
C9_LastOccurrenceWins ==
    Dispatched =>
        LET ts == Tokens
            kwargs == dispatched[1].kwargs
        IN  /\ \A n, m \in 1..Len(kwargs) : kwargs[n][1] = kwargs[m][1] => n = m
            /\ \A i \in 1..Len(ts) :
                   (/\ OptionToken(ts, i)
                    /\ \A j \in (i + 1)..Len(ts) :
                           OptionToken(ts, j) => NormalKey(ts[j]) # NormalKey(ts[i]))
                       => /\ Has(kwargs, NormalKey(ts[i]))
                          /\ Get(kwargs, NormalKey(ts[i])) = WrittenValue(ts, i)

(***************************************************************************)
(* C10: a token "--" + key + "=" + value is parsed into the entry          *)
(* (key, value) of the options exactly: one split at the first "=", and    *)
(* nothing else taken off the key or the value.  Stated of the options a   *)
(* dispatch holds, for the last token that writes the key.                 *)
(***************************************************************************)
C10_KeyValueRoundTrip ==
    Dispatched =>
        LET ts == Tokens
            options == dispatched[1].options
        IN  \A i \in 1..Len(ts) :
                (/\ OptionToken(ts, i)
                 /\ HasEquals(ts[i])
                 /\ \A j \in (i + 1)..Len(ts) :
                        OptionToken(ts, j) => KeyValue(ts[j])[1] # WrittenKey(ts[i]))
                    => /\ Has(options, WrittenKey(ts[i]))
                       /\ Get(options, WrittenKey(ts[i]))
                              = PyStr(SplitOnce(AfterTwoHyphens(ts[i]), "=")[2])

(***************************************************************************)
(* C8.  The completion context of a line buffer: its words, the partial    *)
(* token being typed (empty at a fresh position) and the tokens before     *)
(* it; and the n-th name, from 0, of a set of names in sorted order.       *)
(***************************************************************************)
Completed == call.op = "completer"

Words(line) == Split(line)

EndsInWhitespace(line) == Len(line) > 0 /\ SubSeq(line, Len(line), Len(line)) \in Whitespace

EndsInSpace(line) == Len(line) > 0 /\ SubSeq(line, Len(line), Len(line)) = " "

AllButLast(seq) == SubSeq(seq, 1, Len(seq) - 1)

NthSorted(names, n) ==
    IF n < Cardinality(names)
    THEN PyStr(CHOOSE x \in names : Cardinality({y \in names : Less(y, x)}) = n)
    ELSE None

ChildNames(path) ==
    LET children == NodeAt(RootNode, path).children
    IN  {children[n][1] : n \in 1..Len(children)}

Candidates(path, t) == {name \in ChildNames(path) : StartsWith(name, t)}

\* the completer answers the call as if the candidates at path for t were listed sorted
Offers(path, t) == ret = NthSorted(Candidates(path, t), call.state)

FreshPosition(line) == EndsInSpace(line) \/ Len(Words(line)) = 0

(***************************************************************************)
(* C8 as amended: the final token is empty when the buffer ends in a space *)
(* character or holds no word, and is the last word otherwise; when the    *)
(* tokens before it walk to a Group G the completer yields the sorted      *)
(* list of the names of G's children that start with it: "jobs st" gives   *)
(* start, stop and "jobs " gives list, start, stop.                        *)
(***************************************************************************)
C8_CompletesAtGroup ==
    Completed =>
        LET t == IF FreshPosition(call.line) THEN "" ELSE Words(call.line)[Len(Words(call.line))]
            earlier == IF FreshPosition(call.line) THEN Words(call.line)
                       ELSE AllButLast(Words(call.line))
        IN  /\ IsGroupPath(earlier) => Offers(earlier, t)
            /\ call.line = "jobs st" => ret = NthSorted({"start", "stop"}, call.state)
            /\ call.line = "jobs " => ret = NthSorted({"list", "start", "stop"}, call.state)

(***************************************************************************)
(* C8 as stated: the final token is empty when the buffer ends in          *)
(* whitespace or is empty; "jobs st" gives start alone.                    *)
(***************************************************************************)
C8_CompletesAtGroupAsStated ==
    Completed =>
        LET fresh == EndsInWhitespace(call.line) \/ Len(call.line) = 0
            t == IF fresh THEN "" ELSE Words(call.line)[Len(Words(call.line))]
            earlier == IF fresh THEN Words(call.line) ELSE AllButLast(Words(call.line))
        IN  /\ IsGroupPath(earlier) => Offers(earlier, t)
            /\ call.line = "jobs st" => ret = NthSorted({"start"}, call.state)
            /\ call.line = "jobs " => ret = NthSorted({"list", "start", "stop"}, call.state)

C8_Witness ==
    /\ Completed
    /\ call.line = "jobs st"
    /\ call.state = 1
    /\ ret = PyStr("stop")

(***************************************************************************)
(* show_help.  The walk of its tokens: it stops at the first prefix that   *)
(* is the path of a Command, fails at the first token that names no child  *)
(* of the Group reached, and otherwise ends at a Group.                    *)
(***************************************************************************)
Helped == Len(help_calls) = 1

HelpArgs == help_calls[1]

Prefix(ts, k) == SubSeq(ts, 1, k)

StopsAtCommand(ts, k) == k \in 1..Len(ts) /\ IsCommandPath(Prefix(ts, k))

UnknownInWalk(ts) ==
    \E k \in 1..Len(ts) :
        IsGroupPath(Prefix(ts, k - 1)) /\ NodeAt(RootNode, Prefix(ts, k)) = Nowhere

\* the lines after the heading
Listing == Tail(stdout)

ListedAs(prefix, names) ==
    /\ Len(Listing) = Cardinality(names)
    /\ {Listing[n] : n \in 1..Len(Listing)} = {prefix \o name : name \in names}

DeclaredOptions(node) == {node.options[n] : n \in 1..Len(node.options)}

(***************************************************************************)
(* C11: show_help walks the tokens by Group descent and emits the declared *)
(* option names when the walk ends at a Command (a "no options" notice     *)
(* when it declares none), the child names when it ends at a Group, and an *)
(* "unknown command" notice and nothing else when a token is unrecognized. *)
(* show_help([users]) lists exactly add, list, remove and                  *)
(* show_help([jobs, start]) lists max-mem, nice.                           *)
(***************************************************************************)
C11_HelpContent ==
    Helped =>
        LET ts == HelpArgs
        IN  /\ \A k \in 1..Len(ts) :
                   StopsAtCommand(ts, k) =>
                       LET node == NodeAt(RootNode, Prefix(ts, k))
                       IN  /\ StartsWith(stdout[1], "Help for command")
                           /\ IF "options" \in DOMAIN node
                              THEN /\ Listing[1] = "Options:"
                                   /\ Len(Listing) = 1 + Cardinality(DeclaredOptions(node))
                                   /\ {Listing[n] : n \in 2..Len(Listing)}
                                          = {"  --" \o o : o \in DeclaredOptions(node)}
                              ELSE Listing = <<"No options available.">>
            /\ IsGroupPath(ts) =>
                   /\ StartsWith(stdout[1], "Available commands")
                   /\ ListedAs("  ", ChildNames(ts))
            /\ UnknownInWalk(ts) =>
                   /\ Len(stdout) = 1
                   /\ StartsWith(stdout[1], "Unknown command")
            /\ ts = <<"users">> => ListedAs("  ", {"add", "list", "remove"})
            /\ ts = <<"jobs", "start">> =>
                   {Listing[n] : n \in 2..Len(Listing)} = {"  --max-mem", "  --nice"}

C11_Witness ==
    /\ call.op = "show_help"
    /\ HelpArgs = <<"jobs", "start">>
    /\ stdout = <<"Help for command 'jobs start':", "Options:", "  --nice", "  --max-mem">>

(***************************************************************************)
(* C16: show_help stops at the first Command its walk reaches: when the    *)
(* prefix of length k of the tokens is the path of a Command, the option   *)
(* list emitted is that Command's declared options (or the notice that it  *)
(* has none), whatever the tokens after position k are; they are neither   *)
(* descended into nor reported as unknown.                                 *)
(***************************************************************************)
C16_HelpStopsAtCommand ==
    Helped =>
        \A k \in 1..Len(HelpArgs) :
            StopsAtCommand(HelpArgs, k) =>
                LET node == NodeAt(RootNode, Prefix(HelpArgs, k))
                IN  /\ Listing = IF "options" \in DOMAIN node
                                 THEN <<"Options:">>
                                          \o [n \in 1..Len(node.options) |->
                                                 "  --" \o node.options[n]]
                                 ELSE <<"No options available.">>
                    /\ \A n \in 1..Len(stdout) : ~StartsWith(stdout[n], "Unknown")

C16_Witness ==
    /\ call.op = "show_help"
    /\ HelpArgs = <<"jobs", "start", "bogus">>
    /\ Listing = <<"Options:", "  --nice", "  --max-mem">>

(***************************************************************************)
(* execute_command at the end of its tokens, all of them processed.        *)
(***************************************************************************)
AtEnd(ts) == Len(ts) + 1

BareTokens(ts) == PathBefore(ts, AtEnd(ts))

EndsAtCommand(ts) == Meets(ts, AtEnd(ts)) /\ IsCommandPath(BareTokens(ts))

EndsAtGroup(ts) == Meets(ts, AtEnd(ts)) /\ IsGroupPath(BareTokens(ts))

PlainKey(t) == Len(WrittenKey(t)) > 0 /\ SubSeq(WrittenKey(t), 1, 1) # "-"

Unaccepted(d) == {n \in 1..Len(d.kwargs) : d.kwargs[n][1] \notin Parameters(d.function)}

C18_DispatchOnBarePath ==
    (Executed /\ dispatched # <<>>) =>
        /\ Len(dispatched) = 1
        /\ IsCommandPath(BareTokens(Tokens))
        /\ \A k \in 0..(Len(BareTokens(Tokens)) - 1) :
               IsGroupPath(Prefix(BareTokens(Tokens), k))
        /\ dispatched[1].function = NodeAt(RootNode, BareTokens(Tokens)).function

C18_Witness ==
    /\ Executed
    /\ Tokens = <<"jobs", "start", "--max-mem", "list">>
    /\ BareTokens(Tokens) = <<"jobs", "start">>
    /\ Len(dispatched) = 1
    /\ dispatched[1].function = PyFunction("start_job_function")

(***************************************************************************)
(* C19: a token consumed as the value of a two-token option is never used  *)
(* for descent, even when it names a child of the current Group, and is    *)
(* never reported as an unknown token: the outcome at the end of the       *)
(* tokens is that of the bare tokens alone, and an unknown-token report    *)
(* names a bare token.                                                     *)
(***************************************************************************)
C19_ValueNotDescended ==
    Executed =>
        \A k \in 1..Len(Tokens) :
            (ValueToken(Tokens, k) /\ Meets(Tokens, k - 1)) =>
                /\ EndsAtGroup(Tokens) =>
                       /\ dispatched = <<>>
                       /\ stdout = <<"No executable command provided.">>
                /\ EndsAtCommand(Tokens) =>
                       /\ Len(dispatched) = 1
                       /\ dispatched[1].function
                              = NodeAt(RootNode, BareTokens(Tokens)).function
                /\ stdout = <<UnknownMessage(Tokens[k])>> =>
                       \E j \in 1..Len(Tokens) :
                           /\ PathToken(Tokens, j)
                           /\ Tokens[j] = Tokens[k]
                           /\ Meets(Tokens, j)

C19_Witness ==
    /\ Executed
    /\ Tokens = <<"jobs", "--max-mem", "list">>
    /\ dispatched = <<>>
    /\ stdout = <<"No executable command provided.">>

(***************************************************************************)
(* C20: for every token sequence that holds the exact token --help,        *)
(* execute_command invokes no function: the sentinel is never consumed as  *)
(* an option's value, so the walk either fails at a bare token before the  *)
(* first sentinel or takes the help exit at it.                            *)
(***************************************************************************)
C20_HelpNeverDispatches ==
    Executed =>
        \A k \in 1..Len(Tokens) :
            (Tokens[k] = "--help" /\ NoHelpBefore(Tokens, k)) =>
                /\ dispatched = <<>>
                /\ \/ help_calls = <<Prefix(Tokens, k - 1)>>
                   \/ /\ help_calls = <<>>
                      /\ \E j \in 1..(k - 1) :
                             /\ PathToken(Tokens, j)
                             /\ stdout = <<UnknownMessage(Tokens[j])>>

C20_Witness ==
    /\ Executed
    /\ Tokens = <<"jobs", "start", "--max-mem", "--help">>
    /\ help_calls = <<<<"jobs", "start", "--max-mem">>>>
    /\ dispatched = <<>>

(***************************************************************************)
(* The completion context of the line buffer of a completer call, as C8    *)
(* (amended) gives it, and the candidates of the buffer: the names that    *)
(* start with the partial token among the children of the Group the        *)
(* earlier tokens walk to, and none when they walk to no Group.            *)
(***************************************************************************)
Partial(line) == IF FreshPosition(line) THEN "" ELSE Words(line)[Len(Words(line))]

Earlier(line) == IF FreshPosition(line) THEN Words(line) ELSE AllButLast(Words(line))

CandidatesOf(line) ==
    IF IsGroupPath(Earlier(line)) THEN Candidates(Earlier(line), Partial(line)) ELSE {}

(***************************************************************************)
(* C13: for a line buffer whose sorted candidate list is C, completer at   *)
(* index n returns C[n] for 0 <= n < |C| and None for n >= |C|: asked with *)
(* 0, 1, 2, ... the caller gets each candidate once, in sorted order, and  *)
(* then the sentinel.                                                      *)
(***************************************************************************)
C13_IndexedThenNone ==
    Completed =>
        LET C == CandidatesOf(call.line)
            n == call.state
        IN  /\ n >= Cardinality(C) => ret = None
            /\ n < Cardinality(C) =>
                   /\ ret # None
                   /\ Str(ret) \in C
                   /\ Cardinality({y \in C : Less(y, Str(ret))}) = n

C13_Witness ==
    /\ Completed
    /\ call.line = "jobs "
    /\ call.state = 2
    /\ ret = PyStr("stop")

(***************************************************************************)
(* C15: the tokens before the final one are walked by child-name descent,  *)
(* option tokens like any other: if one of them names no child of the      *)
(* Group reached, or names a Command, the completer has no candidate,      *)
(* whatever the final partial token is.                                    *)
(***************************************************************************)
C15_NoCandidateOffPath ==
    Completed =>
        \A k \in 1..Len(Earlier(call.line)) :
            ~IsGroupPath(Prefix(Earlier(call.line), k)) => ret = None

C15_Witness ==
    /\ Completed
    /\ call.line = "jobs list l"
    /\ call.state = 0
    /\ ret = None

(***************************************************************************)
(* The three error outcomes of a line of the REPL: an unknown token, an    *)
(* incomplete path, a handler invocation error.                            *)
(***************************************************************************)
ReplErrorLine(text) ==
    \/ StartsWith(text, "Unknown command or option '")
    \/ text = "No executable command provided."
    \/ StartsWith(text, "Error executing command: ")

ReplError ==
    /\ call.op = "run_repl"
    /\ Executed
    /\ Len(stdout) = 1
    /\ ReplErrorLine(stdout[1])

(***************************************************************************)
(* C14: after any input line whose processing ends in an unknown token, an *)
(* incomplete path or a handler invocation error, the loop of run_repl is  *)
(* still running, and it comes back to the prompt, where the next input    *)
(* line is read and processed: no such error ends the loop.                *)
(***************************************************************************)
C14_LoopSurvivesErrors ==
    /\ [](ReplError => pc = "looping")
    /\ (pc = "looping") ~> (pc = "prompt" /\ ENABLED ReplLine)

C14_Witness ==
    /\ ReplError
    /\ call.line = "jobs list --nice=5"
    /\ StartsWith(stdout[1], "Error executing command: ")
    /\ pc = "looping"

====
